---- MODULE Spec2Model ----
(***************************************************************************)
(* Model of the raster halftoning pipeline (utils.ts: toMonoImage,         *)
(* toGrayImage), of the XML command builder's image element (print.ts:     *)
(* EpsonPrint.addImage / addRow) of epson-printer-sdk.                      *)
(*                                                                         *)
(* Real numbers are fixed-point integers in units of 1/SC; a division      *)
(* rounds to the nearest unit.  NaN is a distinguished value that every    *)
(* arithmetic operator propagates and every comparison rejects.            *)
(***************************************************************************)
EXTENDS Integers, Sequences, FiniteSets, TLC

\* ---------------------------------------------------------------- bounds
MaxW == 12
MaxH == 2
TallH == 3
PatLen == 8
SmallDim == 2

\* ------------------------------------------------------------ arithmetic
SC == 100000
NaN == -2000000000

RDiv(x, dd) == (x \div dd) + (IF 2 * (x % dd) >= dd THEN 1 ELSE 0)

FAdd(a, b) == IF a = NaN \/ b = NaN THEN NaN ELSE a + b

FSub(a, b) == IF a = NaN \/ b = NaN THEN NaN ELSE a - b

FMulDiv(a, num, den) == IF a = NaN THEN NaN ELSE RDiv(a * num, den)

FLess(a, b) == a # NaN /\ b # NaN /\ a < b

RECURSIVE SqrtSearch(_, _, _)
SqrtSearch(x, lo, hi) ==
  IF lo >= hi THEN lo
  ELSE LET mid == (lo + hi + 1) \div 2
       IN  IF mid * mid <= x THEN SqrtSearch(x, mid, hi)
           ELSE SqrtSearch(x, lo, mid - 1)

ISqrt(x) == SqrtSearch(x, 0, 46340)

\* ------------------------------------------------------------- the input
White == <<255, 255, 255, 255>>
Black == <<0, 0, 0, 255>>
Grey == <<128, 128, 128, 255>>

Palette == <<White, Grey, Black>>

Gammas == {0, 1, 2}

\* an image is a background colour with a foreground colour on every PatLen-th
\* diagonal: <<background, foreground, diagonal>>
Patterns == (1..Len(Palette)) \X (1..Len(Palette)) \X (0..(PatLen - 1))

PixelAt(pat, ww, k) ==
  LET w1 == IF ww < 1 THEN 1 ELSE ww
      col == (k - 1) % w1
      row == (k - 1) \div w1
  IN  Palette[IF (col + row) % PatLen = pat[3] THEN pat[2] ELSE pat[1]]

MakeData(pat, ww, len) == [k \in 1..len |-> PixelAt(pat, ww, k)]

\* --------------------------------------------------- luminance (sampler)
Composite(px) ==
  LET L == 29891 * px[1] + 58661 * px[2] + 11448 * px[3]
      La == (L \div 255) * px[4] + RDiv((L % 255) * px[4], 255)
  IN  La + (255 - px[4]) * SC

Pow255(c, gm) ==
  IF gm = 1 THEN c
  ELSE IF gm = 2 THEN ISqrt(25500 * (c \div 1000)) * 1000
  ELSE IF c < 255 * SC THEN 0 ELSE NaN

Sample(dd, pp, gm) ==
  IF (pp \div 4) + 1 > Len(dd) THEN NaN
  ELSE Pow255(Composite(dd[(pp \div 4) + 1]), gm)

\* ------------------------------------------------------------- the state
VARIABLES fn, d, w, h, s, g, pc, r, errorBuffer, heap, cur, nxt, nxt2,
          n, p, q, j, i, hist, wlog, outcome, message, calls,
          maxRetries, retryCount, sendPc, caught, returned, thrown, trace

vars == <<fn, d, w, h, s, g, pc, r, errorBuffer, heap, cur, nxt, nxt2,
          n, p, q, j, i, hist, wlog, outcome, message, calls,
          maxRetries, retryCount, sendPc, caught, returned, thrown, trace>>

printVars == <<message, calls>>

sendVars == <<maxRetries, retryCount, sendPc, caught, returned, thrown, trace>>

convVars == <<fn, d, w, h, s, g, pc, r, errorBuffer, heap, cur, nxt, nxt2,
              n, p, q, j, i, hist, wlog, outcome>>

inputVars == <<fn, d, w, h, s, g>>

monoVars == <<errorBuffer, heap, cur, nxt, nxt2>>

\* ------------------------------------------------ EpsonPrinter (transport)
RetryBound == 3

DefaultMaxRetries == 3

\* what one POST to the printer can come to
NoReply == [fetch |-> "none", ok |-> FALSE, response |-> FALSE, success |-> "", code |-> ""]

Replies ==
  { [fetch |-> "rejects", ok |-> FALSE, response |-> FALSE, success |-> "", code |-> ""],
    [fetch |-> "resolves", ok |-> FALSE, response |-> FALSE, success |-> "", code |-> ""],
    [fetch |-> "resolves", ok |-> TRUE, response |-> FALSE, success |-> "", code |-> ""],
    [fetch |-> "resolves", ok |-> TRUE, response |-> TRUE, success |-> "true", code |-> ""],
    [fetch |-> "resolves", ok |-> TRUE, response |-> TRUE, success |-> "false",
     code |-> "DeviceNotFound"],
    [fetch |-> "resolves", ok |-> TRUE, response |-> TRUE, success |-> "false", code |-> ""] }

RetryLimits == (-1)..RetryBound

\* a new EpsonPrinter, no send under way
SendIdle ==
  /\ maxRetries = DefaultMaxRetries
  /\ retryCount = 0
  /\ sendPc = "idle"
  /\ caught = ""
  /\ returned = NoReply
  /\ thrown = ""
  /\ trace = << >>

\* ------------------------------------------------- toMonoImage (helpers)
Bayer ==
  << <<2, 130, 34, 162, 10, 138, 42, 170>>,
     <<194, 66, 226, 98, 202, 74, 234, 106>>,
     <<50, 178, 18, 146, 58, 186, 26, 154>>,
     <<242, 114, 210, 82, 250, 122, 218, 90>>,
     <<14, 142, 46, 174, 6, 134, 38, 166>>,
     <<206, 78, 238, 110, 198, 70, 230, 102>>,
     <<62, 190, 30, 158, 54, 182, 22, 150>>,
     <<254, 126, 222, 94, 246, 118, 214, 86>> >>

Threshold(ss, jj, ii) ==
  IF ss = 0 THEN Bayer[(jj % 8) + 1][(ii % 8) + 1] * SC ELSE 128 * SC

MonoTargetSize_Floor(ww, hh) == (ww \div 8) * hh

MonoTargetSize(ww, hh) == ((ww + 7) \div 8) * hh

Zeros(len) == [k \in 1..len |-> 0]

BitMask_LsbFirst(b) == 2 ^ b

BitMask(b) == 128 \div (2 ^ b)

RECURSIVE BitOr(_, _)
BitOr(a, b) ==
  IF a = 0 THEN b
  ELSE IF b = 0 THEN a
  ELSE (IF a % 2 = 1 \/ b % 2 = 1 THEN 1 ELSE 0) + 2 * BitOr(a \div 2, b \div 2)

FlushNow(ii, ww) == (ii % 8) = 7 \/ ii = ww - 1

FlushByte_NoSubst(nn) == nn

FlushByte(nn) == IF nn = 16 THEN 32 ELSE nn

Store(arr, idx, val) ==
  IF idx >= 0 /\ idx < Len(arr) THEN [arr EXCEPT ![idx + 1] = val] ELSE arr

MonoErr_Swapped(v, isDark) == FSub(v, IF isDark THEN 255 * SC ELSE 0)

MonoErr(v, isDark) == FSub(v, IF isDark THEN 0 ELSE 255 * SC)

Kernel(ss, err, c, x, x2, ii) ==
  IF ss = 1 THEN
    << <<c, ii + 3, FMulDiv(err, 7, 16)>>, <<x, ii + 1, FMulDiv(err, 3, 16)>>,
       <<x, ii + 2, FMulDiv(err, 5, 16)>>, <<x, ii + 3, FMulDiv(err, 1, 16)>> >>
  ELSE IF ss = 2 THEN
    LET dist == FMulDiv(err, 1, 8)
    IN  << <<c, ii + 3, dist>>, <<c, ii + 4, dist>>, <<x, ii + 1, dist>>,
           <<x, ii + 2, dist>>, <<x, ii + 3, dist>>, <<x2, ii + 2, dist>> >>
  ELSE IF ss = 3 THEN
    LET dist == FMulDiv(err, 1, 42)
        m(k) == FMulDiv(dist, k, 1)
    IN  << <<c, ii + 3, m(8)>>, <<c, ii + 4, m(4)>>,
           <<x, ii, m(2)>>, <<x, ii + 1, m(4)>>, <<x, ii + 2, m(8)>>,
           <<x, ii + 3, m(4)>>, <<x, ii + 4, m(2)>>,
           <<x2, ii, m(1)>>, <<x2, ii + 1, m(2)>>, <<x2, ii + 2, m(4)>>,
           <<x2, ii + 3, m(2)>>, <<x2, ii + 4, m(1)>> >>
  ELSE << >>

RECURSIVE ApplyWrites(_, _)
ApplyWrites(hp, ws) ==
  IF ws = << >> THEN hp
  ELSE LET wr == Head(ws)
       IN  ApplyWrites(
             [hp EXCEPT ![wr[1]][wr[2] + 1] = FAdd(hp[wr[1]][wr[2] + 1], wr[3])],
             Tail(ws))

Rotate(eb, x2) == Append(Tail(eb), x2)

\* ------------------------------------------------- toMonoImage (actions)
MonoEnter ==
  /\ pc = "call" /\ fn = "mono"
  /\ IF MonoTargetSize(w, h) < 0 \/ w + 4 < 0
     THEN /\ pc' = "threw"
          /\ outcome' = "RangeError"
          /\ UNCHANGED <<r, monoVars, n, p, q, j>>
     ELSE /\ pc' = "row"
          /\ r' = Zeros(MonoTargetSize(w, h))
          /\ errorBuffer' = <<1, 2, 3>>
          /\ heap' = [k \in 1..3 |-> Zeros(w + 4)]
          /\ n' = 0 /\ p' = 0 /\ q' = 0 /\ j' = 0
          /\ UNCHANGED <<cur, nxt, nxt2, outcome>>
  /\ UNCHANGED <<inputVars, i, hist, wlog, printVars, sendVars>>

MonoRow ==
  /\ pc = "row" /\ fn = "mono" /\ j < h
  /\ cur' = errorBuffer[1] /\ nxt' = errorBuffer[2] /\ nxt2' = errorBuffer[3]
  /\ heap' = [heap EXCEPT ![errorBuffer[3]] = Zeros(w + 4)]
  /\ i' = 0
  /\ pc' = IF 0 < w THEN "pixel" ELSE "rowend"
  /\ UNCHANGED <<inputVars, r, errorBuffer, n, p, q, j, hist, wlog, outcome, printVars, sendVars>>

MonoPixel ==
  /\ pc = "pixel" /\ fn = "mono"
  /\ LET b == i % 8
         t == Threshold(s, j, i)
         v0 == Sample(d, p, g)
         v == IF s = 0 THEN v0 ELSE FAdd(v0, heap[cur][i + 3])
         isDark == FLess(v, t)
         n1 == IF isDark THEN BitOr(n, BitMask(b)) ELSE n
         err == MonoErr(v, isDark)
     IN  /\ heap' = IF s > 0 THEN ApplyWrites(heap, Kernel(s, err, cur, nxt, nxt2, i))
                    ELSE heap
         /\ hist' = Append(hist, [j |-> j, i |-> i, v0 |-> v0, v |-> v, dark |-> isDark])
         /\ IF FlushNow(i, w)
            THEN /\ r' = Store(r, q, FlushByte(n1))
                 /\ wlog' = Append(wlog, q)
                 /\ q' = q + 1
                 /\ n' = 0
            ELSE /\ n' = n1
                 /\ UNCHANGED <<r, wlog, q>>
  /\ p' = p + 4
  /\ i' = i + 1
  /\ pc' = IF i + 1 < w THEN "pixel" ELSE "rowend"
  /\ UNCHANGED <<inputVars, errorBuffer, cur, nxt, nxt2, j, outcome, printVars, sendVars>>

MonoRowEnd ==
  /\ pc = "rowend" /\ fn = "mono"
  /\ errorBuffer' = Rotate(errorBuffer, nxt2)
  /\ j' = j + 1
  /\ pc' = "row"
  /\ UNCHANGED <<inputVars, r, heap, cur, nxt, nxt2, n, p, q, i, hist, wlog, outcome, printVars, sendVars>>

MonoReturn ==
  /\ pc = "row" /\ fn = "mono" /\ ~(j < h)
  /\ pc' = "done"
  /\ outcome' = "returned"
  /\ UNCHANGED <<inputVars, r, monoVars, n, p, q, j, i, hist, wlog, printVars, sendVars>>

\* ------------------------------------------------- toGrayImage (helpers)
thermal ==
  <<0, 7, 13, 19, 23, 27, 31, 35, 40, 44, 49, 52, 54, 55, 57, 59, 61, 62, 64, 66, 67, 69, 70, 70,
    71, 72, 73, 74, 75, 76, 77, 78, 79, 80, 81, 82, 83, 83, 84, 85, 86, 86, 87, 88, 88, 89, 90, 90,
    91, 91, 92, 93, 93, 94, 94, 95, 96, 96, 97, 98, 98, 99, 99, 100, 101, 101, 102, 102, 103, 103,
    104, 104, 105, 105, 106, 106, 107, 107, 108, 108, 109, 109, 110, 110, 111, 111, 112, 112, 112,
    113, 113, 114, 114, 115, 115, 116, 116, 117, 117, 118, 118, 119, 119, 120, 120, 120, 121, 121,
    122, 122, 123, 123, 123, 124, 124, 125, 125, 125, 126, 126, 127, 127, 127, 128, 128, 129, 129,
    130, 130, 130, 131, 131, 132, 132, 132, 133, 133, 134, 134, 135, 135, 135, 136, 136, 137, 137,
    137, 138, 138, 139, 139, 139, 140, 140, 141, 141, 141, 142, 142, 143, 143, 143, 144, 144, 145,
    145, 146, 146, 146, 147, 147, 148, 148, 148, 149, 149, 150, 150, 150, 151, 151, 152, 152, 152,
    153, 153, 154, 154, 155, 155, 155, 156, 156, 157, 157, 158, 158, 159, 159, 160, 160, 161, 161,
    161, 162, 162, 163, 163, 164, 164, 165, 165, 166, 166, 166, 167, 167, 168, 168, 169, 169, 170,
    170, 171, 171, 172, 173, 173, 174, 175, 175, 176, 177, 178, 178, 179, 180, 180, 181, 182, 182,
    183, 184, 184, 185, 186, 186, 187, 189, 191, 193, 195, 198, 200, 202, 255>>

m4 == << <<0, 9, 2, 11>>, <<13, 4, 15, 6>>, <<3, 12, 1, 10>>, <<16, 7, 14, 5>> >>

GrayTargetSize(ww, hh) == ((ww + 1) \div 2) * hh

\* (x | 0): NaN becomes 0, a finite brightness is truncated
ToInt(v) == IF v = NaN THEN 0 ELSE v \div SC

ThermalAt_OneBased(k) == IF k >= 1 /\ k <= Len(thermal) THEN thermal[k] ELSE NaN

\* thermal[k]; an index outside the table reads undefined, modelled as NaN
ThermalAt(k) == IF k >= 0 /\ k < Len(thermal) THEN thermal[k + 1] ELSE NaN

GrayLevel_Reversed(T, jj, ii) ==
  IF T = NaN THEN 0
  ELSE LET v1 == T \div 17
       IN  IF T % 17 < m4[(jj % 4) + 1][(ii % 4) + 1] THEN v1 + 1 ELSE v1

GrayLevel_Leq(T, jj, ii) ==
  IF T = NaN THEN 0
  ELSE LET v1 == T \div 17
       IN  IF m4[(jj % 4) + 1][(ii % 4) + 1] <= T % 17 THEN v1 + 1 ELSE v1

GrayLevel(T, jj, ii) ==
  IF T = NaN THEN 0
  ELSE LET v1 == T \div 17
       IN  IF m4[(jj % 4) + 1][(ii % 4) + 1] < T % 17 THEN v1 + 1 ELSE v1

NibbleShift_Swapped(b) == b * 4

NibbleShift(b) == (1 - b) * 4

GrayFlushNow(ii, ww) == (ii % 2) = 1 \/ ii = ww - 1

\* ------------------------------------------------- toGrayImage (actions)
GrayEnter ==
  /\ pc = "call" /\ fn = "gray"
  /\ IF GrayTargetSize(w, h) < 0
     THEN /\ pc' = "threw"
          /\ outcome' = "RangeError"
          /\ UNCHANGED <<r, n, p, q, j, i>>
     ELSE /\ pc' = IF 0 < h /\ 0 < w THEN "pixel" ELSE "ret"
          /\ r' = Zeros(GrayTargetSize(w, h))
          /\ n' = 0 /\ p' = 0 /\ q' = 0 /\ j' = 0 /\ i' = 0
          /\ UNCHANGED outcome
  /\ UNCHANGED <<inputVars, monoVars, hist, wlog, printVars, sendVars>>

GrayPixel ==
  /\ pc = "pixel" /\ fn = "gray"
  /\ LET b == i % 2
         v0 == Sample(d, p, g)
         v == ThermalAt(ToInt(v0))
         v1 == GrayLevel(v, j, i)
         n1 == BitOr(n, v1 * (2 ^ NibbleShift(b)))
     IN  /\ hist' = Append(hist, [j |-> j, i |-> i, v0 |-> v0, v |-> v, level |-> v1])
         /\ IF GrayFlushNow(i, w)
            THEN /\ r' = Store(r, q, n1 % 256)
                 /\ wlog' = Append(wlog, q)
                 /\ q' = q + 1
                 /\ n' = 0
            ELSE /\ n' = n1
                 /\ UNCHANGED <<r, wlog, q>>
  /\ p' = p + 4
  /\ IF i + 1 < w
     THEN /\ i' = i + 1 /\ j' = j /\ pc' = "pixel"
     ELSE /\ i' = 0 /\ j' = j + 1
          /\ pc' = IF j + 1 < h THEN "pixel" ELSE "ret"
  /\ UNCHANGED <<inputVars, monoVars, outcome, printVars, sendVars>>

GrayReturn ==
  /\ pc = "ret" /\ fn = "gray"
  /\ pc' = "done"
  /\ outcome' = "returned"
  /\ UNCHANGED <<inputVars, r, monoVars, n, p, q, j, i, hist, wlog, printVars, sendVars>>

\* ------------------------------------------------------ the specification
Dims == {-1} \cup (0..MaxW)

Heights == {-1} \cup (0..TallH)

Lengths(ww, hh) == {k \in {ww * hh - 1, ww * hh, ww * hh + 1} : k >= 0}

\* wide images are at most MaxH high, images up to TallH high are narrow;
\* invalid calls and the other gammas are made on small images
InputOK(ww, hh, gm, len) ==
  \/ ww >= 1 /\ hh >= 1 /\ gm = 1 /\ len = ww * hh /\ (hh <= MaxH \/ ww <= SmallDim)
  \/ ww <= SmallDim /\ hh <= SmallDim

Init ==
  /\ fn \in {"mono", "gray"}
  /\ s \in (IF fn = "mono" THEN 0..3 ELSE {0})
  /\ w \in Dims
  /\ h \in Heights
  /\ g \in Gammas
  /\ \E pat \in Patterns : \E len \in Lengths(w, h) :
       /\ InputOK(w, h, g, len)
       /\ d = MakeData(pat, w, len)
  /\ pc = "call"
  /\ r = << >>
  /\ errorBuffer = << >>
  /\ heap = << >>
  /\ cur = 0 /\ nxt = 0 /\ nxt2 = 0
  /\ n = 0 /\ p = 0 /\ q = 0 /\ j = 0 /\ i = 0
  /\ hist = << >>
  /\ wlog = << >>
  /\ outcome = "none"
  /\ message = << >>
  /\ calls = << >>
  /\ SendIdle

Next ==
  \/ MonoEnter
  \/ MonoRow
  \/ MonoPixel
  \/ MonoRowEnd
  \/ MonoReturn
  \/ GrayEnter
  \/ GrayPixel
  \/ GrayReturn

Spec == Init /\ [][Next]_vars

\* ------------------------------------- toGrayImage over the whole tone scale
\* the opaque grey pixel of tone x
Tone(x) == <<x, x, x, 255>>

Tones == 0..255

\* the tones pixel x1 is compared with inside one image: its neighbour on the
\* scale and its mirror image
ToneMates(x1) == {(x1 + 1) % 256, 255 - x1}

\* two periods of the dither matrix side by side, one period high
ToneW == 2 * Len(m4)

ToneH == Len(m4)

\* the left period of every row has tone x1, the rest of the row tone x2
TwoTone(x1, x2, ww, len) ==
  [k \in 1..len |-> IF ((k - 1) % ww) < Len(m4) THEN Tone(x1) ELSE Tone(x2)]

InitTone ==
  /\ fn = "gray" /\ s = 0
  /\ w = ToneW /\ h = ToneH
  /\ g \in Gammas \ {0}
  /\ \E x1 \in Tones : \E x2 \in ToneMates(x1) : d = TwoTone(x1, x2, w, w * h)
  /\ pc = "call"
  /\ r = << >>
  /\ errorBuffer = << >>
  /\ heap = << >>
  /\ cur = 0 /\ nxt = 0 /\ nxt2 = 0
  /\ n = 0 /\ p = 0 /\ q = 0 /\ j = 0 /\ i = 0
  /\ hist = << >>
  /\ wlog = << >>
  /\ outcome = "none"
  /\ message = << >>
  /\ calls = << >>
  /\ SendIdle

NextTone ==
  \/ GrayEnter
  \/ GrayPixel
  \/ GrayReturn

SpecTone == InitTone /\ [][NextTone]_vars

\* ------------------------------------------ EpsonPrint (command builder)
MaxMsg == 2

RECURSIVE ToStr(_)
\* `${value}` of a non-negative integer: its decimal digits
ToStr(x) == IF x < 10 THEN <<x>> ELSE Append(ToStr(x \div 10), x % 10)

Thrown == <<"Error">>

GetIntAttr(name, value, min, max) ==
  IF value < min \/ value > max THEN Thrown ELSE <<name, ToStr(value)>>

GetUByteAttr_UShort(name, value) == GetIntAttr(name, value, 0, 65535)

GetUByteAttr(name, value) == GetIntAttr(name, value, 0, 255)

\* one pass of addRow's loop: the attribute a key contributes, Thrown when its
\* validation throws (the catch logs it and the attribute is left out)
AttrOf(field, key, val) ==
  IF key \in {"width", "height"}
  THEN IF field = "text" THEN GetIntAttr(key, val, 1, 8) ELSE GetUByteAttr(key, val)
  ELSE IF key \in {"line", "unit"} THEN GetUByteAttr(key, val)
  ELSE <<key, val>>

RECURSIVE AttrString(_, _)
AttrString(field, fields) ==
  IF fields = << >> THEN << >>
  ELSE LET a == AttrOf(field, Head(fields)[1], Head(fields)[2])
           rest == AttrString(field, Tail(fields))
       IN  IF a = Thrown THEN rest ELSE <<a>> \o rest

AddRow(msg, field, value, fields) ==
  Append(msg, [field |-> field, attrs |-> AttrString(field, fields), value |-> value])

\* btoa: three bytes become four 6-bit characters, 64 stands for the padding '='
RECURSIVE Base64(_)
Base64(bytes) ==
  IF bytes = << >> THEN << >>
  ELSE IF Len(bytes) = 1
  THEN <<bytes[1] \div 4, (bytes[1] % 4) * 16, 64, 64>>
  ELSE IF Len(bytes) = 2
  THEN <<bytes[1] \div 4, (bytes[1] % 4) * 16 + (bytes[2] \div 16), (bytes[2] % 16) * 4, 64>>
  ELSE <<bytes[1] \div 4, (bytes[1] % 4) * 16 + (bytes[2] \div 16),
         (bytes[2] % 16) * 4 + (bytes[3] \div 64), bytes[3] % 64>>
       \o Base64(SubSeq(bytes, 4, Len(bytes)))

ImageWidths == {1, 255, 256, 576}

ImageHeights == {1, 256}

ImageModes == {"mono", "gray16"}

ImageData == {<<32, 128, 7, 255>>}

FeedLines == {0, 3}

AddImage ==
  /\ Len(message) < MaxMsg
  /\ \E data \in ImageData, width \in ImageWidths, height \in ImageHeights,
        mode \in ImageModes :
       /\ message' = AddRow(message, "image", Base64(data),
                            << <<"width", width>>, <<"height", height>>,
                               <<"color", "color_1">>, <<"mode", mode>> >>)
       /\ calls' = Append(calls, [op |-> "addImage", width |-> width,
                                  height |-> height, mode |-> mode])
  /\ UNCHANGED <<convVars, sendVars>>

AddFeedLine ==
  /\ Len(message) < MaxMsg
  /\ \E line \in FeedLines :
       /\ message' = AddRow(message, "feed", "null", << <<"line", line>> >>)
       /\ calls' = Append(calls, [op |-> "addFeedLine", line |-> line])
  /\ UNCHANGED <<convVars, sendVars>>

AddCut ==
  /\ Len(message) < MaxMsg
  /\ message' = AddRow(message, "cut", "null", << <<"type", "feed">> >>)
  /\ calls' = Append(calls, [op |-> "addCut"])
  /\ UNCHANGED <<convVars, sendVars>>

InitPrint ==
  /\ fn = "none" /\ d = << >> /\ w = 0 /\ h = 0 /\ s = 0 /\ g = 1
  /\ pc = "idle"
  /\ r = << >>
  /\ errorBuffer = << >>
  /\ heap = << >>
  /\ cur = 0 /\ nxt = 0 /\ nxt2 = 0
  /\ n = 0 /\ p = 0 /\ q = 0 /\ j = 0 /\ i = 0
  /\ hist = << >>
  /\ wlog = << >>
  /\ outcome = "none"
  /\ message = << >>
  /\ calls = << >>
  /\ SendIdle

NextPrint ==
  \/ AddImage
  \/ AddFeedLine
  \/ AddCut

SpecPrint == InitPrint /\ [][NextPrint]_vars

\* --------------------------------------------- EpsonPrinter.send (actions)
\* request(data): the error it throws, "" when it returns the parsed document
Request(reply) ==
  IF reply.fetch = "rejects" THEN "NETWORK_ERROR"
  ELSE IF ~reply.ok THEN "HTTP_ERROR_500"
  ELSE ""

\* the try block after the request: the error it throws, "" when it returns
TryBody(reply) ==
  IF Request(reply) # "" THEN Request(reply)
  ELSE IF ~reply.response THEN "INVALID_RESPONSE"
  ELSE IF reply.success # "true"
  THEN (IF reply.code # "" THEN reply.code ELSE "UNKNOWN_ERROR")
  ELSE ""

MayRetry_Leq(count, limit) == count <= limit

MayRetry(count, limit) == count < limit

Delay(count) == (2 ^ count) * 1000

Event(ev, reply, delay) == [ev |-> ev, n |-> retryCount, reply |-> reply, delay |-> delay]

\* setMaxRetries(retries), called while no send is under way: the limit is
\* fixed for the whole of a call
SetMaxRetries ==
  /\ sendPc = "idle"
  /\ \E retries \in RetryLimits : maxRetries' = retries
  /\ UNCHANGED <<convVars, printVars, retryCount, sendPc, caught, returned, thrown, trace>>

\* send(print): retryCount takes its default
SendCall ==
  /\ sendPc = "idle"
  /\ retryCount' = 0
  /\ sendPc' = "try"
  /\ UNCHANGED <<convVars, printVars, maxRetries, caught, returned, thrown, trace>>

\* the request goes out
SendTry ==
  /\ sendPc = "try"
  /\ trace' = Append(trace, Event("request", NoReply, 0))
  /\ sendPc' = "await"
  /\ UNCHANGED <<convVars, printVars, maxRetries, retryCount, caught, returned, thrown>>

\* the request settles and the rest of the try block runs
Respond ==
  /\ sendPc = "await"
  /\ \E reply \in Replies :
       /\ trace' = Append(trace, Event("response", reply, 0))
       /\ IF TryBody(reply) = ""
          THEN /\ returned' = reply
               /\ sendPc' = "resolved"
               /\ UNCHANGED caught
          ELSE /\ caught' = TryBody(reply)
               /\ sendPc' = "catch"
               /\ UNCHANGED returned
  /\ UNCHANGED <<convVars, printVars, maxRetries, retryCount, thrown>>

\* the catch block: start the backoff timer or rethrow
SendCatch ==
  /\ sendPc = "catch"
  /\ IF MayRetry(retryCount, maxRetries)
     THEN /\ trace' = Append(trace, Event("wait", NoReply, Delay(retryCount)))
          /\ sendPc' = "wait"
          /\ UNCHANGED thrown
     ELSE /\ thrown' = caught
          /\ sendPc' = "rejected"
          /\ UNCHANGED trace
  /\ UNCHANGED <<convVars, printVars, maxRetries, retryCount, caught, returned>>

\* the timer fires: send(print, retryCount + 1)
BackoffElapsed ==
  /\ sendPc = "wait"
  /\ trace' = Append(trace, Event("elapsed", NoReply, 0))
  /\ retryCount' = retryCount + 1
  /\ sendPc' = "try"
  /\ UNCHANGED <<convVars, printVars, maxRetries, caught, returned, thrown>>

NextSend ==
  \/ SetMaxRetries
  \/ SendCall
  \/ SendTry
  \/ Respond
  \/ SendCatch
  \/ BackoffElapsed

SpecSend == InitPrint /\ [][NextSend]_vars

\* the event loop runs every continuation that is ready, a started timer
\* fires, and a request that was sent settles
SpecSendFair ==
  /\ SpecSend
  /\ WF_vars(SendTry)
  /\ WF_vars(Respond)
  /\ WF_vars(SendCatch)
  /\ WF_vars(BackoffElapsed)

\* ------------------------------------------------ vocabulary of the claims
ValidDims == w >= 1 /\ h >= 1 /\ Len(d) * 4 = w * h * 4

ValidInput == ValidDims /\ g > 0

CeilDiv(a, b) == CHOOSE k \in 0..(a + 1) : b * k >= a /\ b * (k - 1) < a

\* the pixel (jj, ii) as the pass recorded it
HistAt(jj, ii) == hist[jj * w + ii + 1]

Bit(x, k) == (x \div (2 ^ k)) % 2

\* the byte the decisions of row jj, columns 8c .. 8c+7 pack to, leftmost
\* column in the most significant bit
RECURSIVE PackedFrom(_, _, _)
PackedFrom(jj, c, k) ==
  IF k > 7 \/ 8 * c + k >= w THEN 0
  ELSE (IF HistAt(jj, 8 * c + k).dark THEN 2 ^ (7 - k) ELSE 0) + PackedFrom(jj, c, k + 1)

PackedByte(idx) ==
  LET rb == CeilDiv(w, 8) IN PackedFrom(idx \div rb, idx % rb, 0)

\* the kernels as the specification states them: <<rows down, columns right, weight>>
RefKernel(ss) ==
  IF ss = 1 THEN {<<0, 1, 7>>, <<1, -1, 3>>, <<1, 0, 5>>, <<1, 1, 1>>}
  ELSE IF ss = 2 THEN {<<0, 1, 1>>, <<0, 2, 1>>, <<1, -1, 1>>, <<1, 0, 1>>, <<1, 1, 1>>, <<2, 0, 1>>}
  ELSE IF ss = 3 THEN {<<0, 1, 8>>, <<0, 2, 4>>,
                       <<1, -2, 2>>, <<1, -1, 4>>, <<1, 0, 8>>, <<1, 1, 4>>, <<1, 2, 2>>,
                       <<2, -2, 1>>, <<2, -1, 2>>, <<2, 0, 4>>, <<2, 1, 2>>, <<2, 2, 1>>}
  ELSE {}

RefDen(ss) == IF ss = 1 THEN 16 ELSE IF ss = 2 THEN 8 ELSE 42

RefShare(ss, err, wgt) ==
  IF ss = 1 THEN FMulDiv(err, wgt, 16) ELSE FMulDiv(FMulDiv(err, 1, RefDen(ss)), wgt, 1)

\* the share pixel k1 sends to pixel k2 (raster indices from 0), 0 when the
\* kernel does not reach from one to the other
ShareTo(ss, err, k1, k2) ==
  LET dj == (k2 \div w) - (k1 \div w)
      di == (k2 % w) - (k1 % w)
      hit == {e \in RefKernel(ss) : e[1] = dj /\ e[2] = di}
  IN  IF hit = {} THEN 0 ELSE RefShare(ss, err, (CHOOSE e \in hit : TRUE)[3])

RECURSIVE RefSpread(_, _, _, _)
RefSpread(G, k, err, k2) ==
  IF k2 > Len(G) - 1 THEN G
  ELSE RefSpread([G EXCEPT ![k2 + 1] = FAdd(G[k2 + 1], ShareTo(s, err, k, k2))], k, err, k2 + 1)

\* the reference: one error cell per pixel of the image, never rotated
RECURSIVE RefFrom(_, _, _)
RefFrom(k, G, acc) ==
  IF k >= w * h THEN acc
  ELSE LET v == FAdd(Sample(d, 4 * k, g), G[k + 1])
           dark == FLess(v, 128 * SC)
           err == FSub(v, IF dark THEN 0 ELSE 255 * SC)
       IN  RefFrom(k + 1, RefSpread(G, k, err, k + 1), Append(acc, dark))

RefDecisions == RefFrom(0, Zeros(w * h), << >>)

RECURSIVE PendingFrom(_, _)
PendingFrom(k, k1) ==
  IF k1 >= k THEN 0
  ELSE FAdd(ShareTo(s, MonoErr(hist[k1 + 1].v, hist[k1 + 1].dark), k1, k),
            PendingFrom(k, k1 + 1))

\* what earlier pixels have written for pixel k, with the errors the pass made
Pending(k) == PendingFrom(k, 0)

\* C1: in each diffusion mode, for an image of any height, every pixel gets the
\* same dark/light decision as under a full width x height error grid.
C1_SameAsFullGrid ==
  (fn = "mono" /\ s \in 1..3 /\ ValidInput /\ pc = "done")
    => \A k \in 1..Len(hist) : hist[k].dark = RefDecisions[k]

\* C2: diffusion conserves the error: every share written for a later pixel of
\* the image is added to that pixel's brightness before its decision, none is
\* created or discarded between rows.
C2_ErrorConserved ==
  (fn = "mono" /\ s \in 1..3 /\ ValidInput)
    => \A k \in 1..Len(hist) : hist[k].v = FAdd(hist[k].v0, Pending(k - 1))

\* C3: toMonoImage fails before any pixel is processed, and returns no buffer,
\* whenever width <= 0, height <= 0 or the buffer length is not width*height*4
\* (shown on calls whose gamma is valid).
C3_InvalidDimensionsRejected ==
  (fn = "mono" /\ ~ValidDims /\ g > 0)
    => /\ hist = << >>
       /\ outcome # "returned"

\* C4: toMonoImage and toGrayImage reject a gamma <= 0 instead of computing
\* brightness with it and returning a buffer (shown on calls whose dimensions
\* are valid).
C4_InvalidGammaRejected ==
  (g <= 0 /\ ValidDims)
    => /\ hist = << >>
       /\ outcome # "returned"

\* C6: every flushed byte whose packed value is 16 is emitted as 32, every
\* other one unchanged, so no byte of a monochrome output equals 16.
C6_Sixteen ==
  fn = "mono"
    => \A idx \in 0..(q - 1) :
         /\ r[idx + 1] = (IF PackedByte(idx) = 16 THEN 32 ELSE PackedByte(idx))
         /\ r[idx + 1] # 16

C6_Witness ==
  /\ fn = "mono" /\ pc = "done" /\ s \in 1..3
  /\ \E idx \in 0..(q - 1) : PackedByte(idx) = 16 /\ r[idx + 1] = 32

\* pixels of the current row already processed
DoneInRow == IF fn = "mono" /\ pc \in {"row", "done"} THEN 0 ELSE i

PerByte == IF fn = "mono" THEN 8 ELSE 2

\* C7: for width, height >= 1 the output has ceil(width/8)*height (mono) or
\* ceil(width/2)*height (gray) bytes, written once each in row-major order:
\* every row starts on a byte boundary and the write index ends at the length.
C7_OutputLength ==
  (w >= 1 /\ h >= 1 /\ pc \notin {"call", "threw"})
    => /\ Len(r) = CeilDiv(w, PerByte) * h
       /\ wlog = [k \in 1..q |-> k - 1]
       /\ q = j * CeilDiv(w, PerByte)
                + (IF DoneInRow = w THEN CeilDiv(w, PerByte) ELSE DoneInRow \div PerByte)
       /\ (pc = "done" => q = Len(r))

C7_Witness ==
  /\ pc = "done" /\ fn = "mono" /\ w = 9 /\ h >= 2
  /\ q = 2 * h /\ Len(r) = 2 * h /\ Len(wlog) = 2 * h

\* C8: outside the bytes altered by the substitution, bit (7 - i mod 8) of byte
\* j*ceil(width/8) + floor(i/8) is 1 iff pixel (j, i) is dark, i.e. iff v < t
\* with t the matrix entry at (j mod 8, i mod 8) in Ordered mode and 128 in the
\* diffusion modes.
C8_BitOrder ==
  fn = "mono"
    => \A idx \in 0..(q - 1) :
         LET jj == idx \div CeilDiv(w, 8)
             c == idx % CeilDiv(w, 8)
         IN  PackedByte(idx) # 16
               => \A b \in 0..7 :
                    LET ii == 8 * c + b
                        e == HistAt(jj, ii)
                        v == IF s = 0 THEN Sample(d, 4 * (jj * w + ii), g) ELSE e.v
                        t == IF s = 0 THEN Bayer[(jj % 8) + 1][(ii % 8) + 1] * SC
                             ELSE 128 * SC
                    IN  ii < w
                          => /\ (Bit(r[idx + 1], 7 - (ii % 8)) = 1) <=> e.dark
                             /\ e.dark <=> FLess(v, t)

C8_Witness ==
  /\ fn = "mono" /\ pc = "done" /\ s = 0 /\ w = 9 /\ h = MaxH
  /\ \E k1, k2 \in 1..Len(hist) :
       /\ hist[k1].j = hist[k2].j /\ hist[k1].i = 1 /\ hist[k2].i = 2
       /\ hist[k1].dark /\ ~hist[k2].dark
       /\ PackedByte(hist[k1].j * 2) # 16

\* C9: when width is no multiple of 8 (mono) or of 2 (gray), the padding bits
\* of the last byte of each row (the low 8 - width mod 8 bits, the low nibble)
\* are 0, also in a byte the substitution changed.
C9_PaddingZero ==
  (w >= 1 /\ h >= 1 /\ w % PerByte # 0)
    => \A idx \in 0..(q - 1) :
         (idx % CeilDiv(w, PerByte) = CeilDiv(w, PerByte) - 1)
           => r[idx + 1] % (IF fn = "mono" THEN 2 ^ (8 - (w % 8)) ELSE 16) = 0

C9_Witness ==
  /\ fn = "mono" /\ pc = "done" /\ w % 8 # 0
  /\ \E idx \in 0..(q - 1) :
       /\ idx % CeilDiv(w, 8) = CeilDiv(w, 8) - 1
       /\ PackedByte(idx) = 16 /\ r[idx + 1] = 32

\* the level the specification gives pixel (jj, ii)
Lvl(jj, ii) ==
  LET T == thermal[(Sample(d, 4 * (jj * w + ii), g) \div SC) + 1]
  IN  (T \div 17) + (IF m4[(jj % 4) + 1][(ii % 4) + 1] < T % 17 THEN 1 ELSE 0)

\* C10: the level of pixel (j, i) is floor(T/17), plus 1 iff
\* m4[j mod 4][i mod 4] < T mod 17; it lies in 0..15; each byte holds the even
\* column's level in its high nibble and the next odd column's in its low one.
C10_GrayLevels ==
  (fn = "gray" /\ ValidInput)
    => /\ \A k \in 1..Len(hist) :
            /\ hist[k].level = Lvl(hist[k].j, hist[k].i)
            /\ hist[k].level \in 0..15
       /\ \A idx \in 0..(q - 1) :
            LET rb == CeilDiv(w, 2)
                jj == idx \div rb
                c == idx % rb
            IN  r[idx + 1] = 16 * Lvl(jj, 2 * c)
                               + (IF 2 * c + 1 < w THEN Lvl(jj, 2 * c + 1) ELSE 0)

C10_Witness ==
  /\ fn = "gray" /\ pc = "done" /\ ValidInput /\ w >= 3
  /\ \E k \in 1..Len(hist) :
       /\ hist[k].level = (hist[k].v \div 17) + 1
       /\ hist[k].i = 1
       /\ r[(hist[k].j * CeilDiv(w, 2)) + 1] % 16 = hist[k].level
       /\ r[(hist[k].j * CeilDiv(w, 2)) + 1] \div 16 # hist[k].level

\* the dither-matrix entry of a recorded pixel
EntryOf(e) == m4[(e.j % 4) + 1][(e.i % 4) + 1]

\* C11: of two pixels on the same dither-matrix entry and under the same
\* gamma, the strictly brighter one never has the lower 4-bit level; the
\* thermal table is non-decreasing. Checked for the pixel just converted
\* against the earlier pixels of its image and against every index of the table.
C11_Monotonic ==
  (fn = "gray" /\ ValidInput /\ Len(hist) > 0)
    => LET e == hist[Len(hist)]
       IN  /\ \A k \in 1..(Len(thermal) - 1) : thermal[k] <= thermal[k + 1]
           /\ \A k \in 1..Len(hist) :
                EntryOf(hist[k]) = EntryOf(e)
                  => /\ hist[k].v0 > e.v0 => hist[k].level >= e.level
                     /\ hist[k].v0 < e.v0 => hist[k].level <= e.level
           /\ \A x \in Tones :
                LET lx == GrayLevel(ThermalAt(x), e.j, e.i)
                IN  /\ x > ToInt(e.v0) => lx >= e.level
                    /\ x < ToInt(e.v0) => lx <= e.level

C11_Witness ==
  /\ fn = "gray" /\ pc = "done" /\ g = 2
  /\ \E k1, k2 \in 1..Len(hist) :
       /\ EntryOf(hist[k1]) = EntryOf(hist[k2])
       /\ hist[k1].v0 > hist[k2].v0
       /\ hist[k1].v = hist[k2].v + 1
       /\ hist[k1].level = hist[k2].level + 1

\* every pixel of the image is px
Uniform(px) == \A k \in 1..Len(d) : d[k] = px

\* the byte of index idx when every in-width pixel of it is dark
AllDarkByte(idx) ==
  IF (idx % CeilDiv(w, 8)) = CeilDiv(w, 8) - 1 /\ w % 8 # 0
  THEN 256 - 2 ^ (8 - (w % 8)) ELSE 255

\* C12: for an all-white opaque image of any width and height and gamma 1,
\* toMonoImage returns only zero bytes under each of the four algorithms and
\* toGrayImage gives every in-width pixel level 15.
C12_AllWhite ==
  (ValidInput /\ g = 1 /\ Uniform(White))
    => /\ fn = "mono"
            => /\ \A k \in 1..Len(hist) : ~hist[k].dark
               /\ \A idx \in 1..Len(r) : r[idx] = 0
       /\ fn = "gray"
            => /\ \A k \in 1..Len(hist) : hist[k].level = 15
               /\ \A idx \in 0..(q - 1) :
                    r[idx + 1] = (IF (idx % CeilDiv(w, 2)) = CeilDiv(w, 2) - 1 /\ w % 2 = 1
                                  THEN 240 ELSE 255)

C12_Witness ==
  /\ ValidInput /\ g = 1 /\ Uniform(White)
  /\ fn = "gray" /\ pc = "done" /\ w = 3 /\ h = MaxH
  /\ r = [idx \in 1..(2 * h) |-> IF idx % 2 = 0 THEN 240 ELSE 255]

\* C13: for an all-black opaque image of any width and height and any gamma
\* > 0, toMonoImage sets the bit of every in-width pixel under each of the four
\* algorithms (the accumulated error stays 0, no byte is hit by the 16-to-32
\* substitution) and toGrayImage gives every pixel level 0.
C13_AllBlack ==
  (ValidInput /\ Uniform(Black))
    => /\ fn = "mono"
            => /\ \A k \in 1..Len(hist) : hist[k].dark /\ hist[k].v = 0
               /\ \A b \in 1..Len(heap) : heap[b] = Zeros(w + 4)
               /\ \A idx \in 0..(q - 1) :
                    /\ PackedByte(idx) # 16
                    /\ r[idx + 1] = AllDarkByte(idx)
       /\ fn = "gray"
            => /\ \A k \in 1..Len(hist) : hist[k].level = 0
               /\ \A idx \in 1..Len(r) : r[idx] = 0

C13_Witness ==
  /\ ValidInput /\ Uniform(Black)
  /\ fn = "mono" /\ pc = "done" /\ s = 2 /\ w = 12 /\ h = MaxH
  /\ r = [idx \in 1..(2 * h) |-> IF idx % 2 = 0 THEN 240 ELSE 255]

\* C14: the error accumulator is rotated after every row, the next-next buffer
\* being replaced by a fresh one, so that in every row the three row buffers
\* are pairwise distinct and zeroing the next-next buffer touches neither of
\* the other two.
C14_BuffersDistinct ==
  (fn = "mono" /\ ValidInput /\ pc \in {"pixel", "rowend"})
    => /\ cur # nxt
       /\ nxt # nxt2
       /\ cur # nxt2

\* the positions of the trace at which a request went out
Requests == {k \in 1..Len(trace) : trace[k].ev = "request"}

\* the reply carries a response element whose success attribute is 'true'
SuccessReply(reply) ==
  reply.fetch = "resolves" /\ reply.ok /\ reply.response /\ reply.success = "true"

Settled == sendPc \in {"resolved", "rejected"}

\* what C15 says of every state of a call with maxRetries = N >= 0
SendWithinLimit ==
  (maxRetries >= 0 /\ sendPc # "idle")
    => /\ Cardinality(Requests) <= maxRetries + 1
       /\ \A k \in Requests :
            /\ trace[k].n = Cardinality({k2 \in Requests : k2 < k})
            /\ k = 1 \/ /\ k > 4
                         /\ trace[k - 1].ev = "elapsed"
                         /\ trace[k - 2].ev = "wait"
                         /\ trace[k - 3].ev = "response"
                         /\ ~SuccessReply(trace[k - 3].reply)
                         /\ trace[k - 4].ev = "request"
       /\ \A k \in 1..Len(trace) :
            (trace[k].ev = "response" /\ SuccessReply(trace[k].reply))
              => /\ k = Len(trace)
                 /\ sendPc = "resolved"
                 /\ returned = trace[k].reply
       /\ sendPc = "resolved"
            => /\ trace[Len(trace)].ev = "response"
               /\ SuccessReply(trace[Len(trace)].reply)
       /\ sendPc = "rejected"
            => /\ Cardinality(Requests) = maxRetries + 1
               /\ trace[Len(trace)].ev = "response"
               /\ \A k \in 1..Len(trace) :
                    trace[k].ev = "response" => ~SuccessReply(trace[k].reply)
               /\ thrown # ""
               /\ thrown = TryBody(trace[Len(trace)].reply)

PrinterFailure(reply) ==
  reply.fetch = "resolves" /\ reply.ok /\ reply.response /\ reply.success # "true"

\* the reply is a network error: the fetch was rejected or the status not OK
NetworkError(reply) == reply.fetch = "rejects" \/ (reply.fetch = "resolves" /\ ~reply.ok)

\* C16: send retries an attempt that failed with a network error or timeout
\* while retryCount < maxRetries; a failure the printer itself reports is
\* thrown to the caller with its code, without a further request.
C16_OnlyNetworkErrorsRetried ==
  \A k \in 1..Len(trace) :
    trace[k].ev = "response"
      => /\ (NetworkError(trace[k].reply) /\ trace[k].n < maxRetries)
              => \/ k = Len(trace) /\ sendPc = "catch"
                 \/ k < Len(trace) /\ trace[k + 1].ev = "wait"
         /\ PrinterFailure(trace[k].reply)
              => /\ k = Len(trace)
                 /\ sendPc \in {"catch", "rejected"}
                 /\ sendPc = "rejected" => thrown = TryBody(trace[k].reply)

RECURSIVE ParseDigits(_)
ParseDigits(ds) ==
  IF ds = << >> THEN 0 ELSE 10 * ParseDigits(SubSeq(ds, 1, Len(ds) - 1)) + ds[Len(ds)]

\* the values element el carries for attribute key
AttrValues(el, key) == {el.attrs[k][2] : k \in {x \in 1..Len(el.attrs) : el.attrs[x][1] = key}}

\* C5: the <image> element appended by addImage(data, width, height, mode),
\* width >= 1 and height >= 1, carries width and height attributes equal to
\* the given width and height, and the mode attribute.
C5_ImageDimensions ==
  \A k \in 1..Len(calls) :
    (calls[k].op = "addImage" /\ calls[k].width >= 1 /\ calls[k].height >= 1)
      => /\ message[k].field = "image"
         /\ {ParseDigits(x) : x \in AttrValues(message[k], "width")} = {calls[k].width}
         /\ {ParseDigits(x) : x \in AttrValues(message[k], "height")} = {calls[k].height}
         /\ AttrValues(message[k], "mode") = {calls[k].mode}

====
